---- MODULE Spec2Model ----
(***************************************************************************)
(* Model of the outbound delivery and access-control subsystem of          *)
(* ndiicloud-chat: the MessageQueue drain, the connection supervisor       *)
(* (handleConnectionUpdate / handleReconnect), the AntiSpam rate limiter,  *)
(* the OTP store (cmdSendOTP / botAPI.verifyOTP / POST /api/auth/verify)   *)
(* and the admin routes (requireAuth / requireAdmin).                      *)
(*                                                                         *)
(* Persistence writes (DB.set) are assumed to succeed in the               *)
(* specifications below.                                                   *)
(***************************************************************************)
EXTENDS Integers, Sequences, FiniteSets, TLC

\* ------------------------------------------------------------------ bounds
MaxEnq      == 2    \* envelopes created by MessageQueue.add in one run
MaxTimers   == 1    \* pending setTimeout(process, 1000) callbacks kept at once
MaxRestarts == 1    \* process restarts (reload of queue.json)
MaxOpenWait == 1    \* 'open' handlers suspended on the start-up notification
MaxReconnectQ == 2  \* cap on reconnectAttempts in the queue specifications
MaxReconnect == 12  \* cap on reconnectAttempts in the supervisor specification
MaxTicks    == 3    \* clock advances in one run
MaxChecks   == 13   \* inbound messages handled in one run
TimeStep    == 5000 \* the short clock advance, in ms
MaxVerifies == 3    \* verify requests in one run
MaxIssues   == 2    \* OTP issuances in one run
MaxPending  == 1    \* cmdSendOTP calls suspended at once
MaxTicksOtp == 2    \* clock advances in one run of the OTP specification
MaxAdminReqs == 3   \* requests to the admin routes in one run
MaxKvReqs   == 3    \* invocations of the serverless handlers
MaxTaskSets == 2    \* calls of startScheduledTasks() counted in one process
MaxSessions == 2    \* sessions minted in one run of the roles specification
MaxTicksKv  == 2    \* clock advances while the serverless handlers run
MaxDirect   == 1    \* sendNotification calls suspended on their direct send

\* ------------------------------------------------------- program constants
MAX_ATTEMPTS           == 3       \* msg.attempts >= 3
MAX_RECONNECT_ATTEMPTS == 10
RECONNECT_INTERVAL     == 5000
RECONNECT_CAP          == 60000
RESTART_COOLDOWN       == 30000
LIMIT_MESSAGES         == 10      \* limits.messages
LIMIT_WINDOW           == 10000   \* limits.window
BLOCK_DURATION         == 300000  \* limits.blockDuration

SESSION_TTL            == 86400000 \* { ex: 86400 } on the session key, in ms
KV_EX                  == 300000  \* { ex: 300 }, in ms
OTP_TTL                == 300000  \* 5 * 60 * 1000

Senders == {"a", "b"}

\* phone numbers as the caller writes them, character by character
Targets == {<<"1">>, <<"+", "1">>}
Codes   == {"111111", "222222"}
Digits  == {"0", "1", "2", "3", "4", "5", "6", "7", "8", "9"}

VARIABLES
    \* MessageQueue
    queue,          \* this.queue : sequence of [id, attempts]
    disk,           \* data/queue.json : { messages: [...] }
    processing,     \* this.processing
    drains,         \* process() invocations suspended at an await: [id, phase]
    timers,         \* number of pending setTimeout(() => this.process(), 1000)
    nextId,         \* next uuidv4() (ids are unique; numbered in creation order)
    restarts,       \* process restarts so far
    \* connection supervisor
    isBotReady,     \* let isBotReady
    conn,           \* last connection event of the current socket
    reconnectAttempts,
    reconnectTimer, \* delays of the pending setTimeout(startBot, delay) callbacks
    openWait,       \* 'open' handlers awaiting sendMessage(adminNumber, ...)
    sockets,        \* transport instances built by makeWASocket and not yet
                    \* reported closed
    taskSets,       \* calls of startScheduledTasks() in this process, each
                    \* registering its cron jobs anew
    lastDelay,      \* history: the delay handleReconnect scheduled last since
                    \* reconnectAttempts was last reset, 0 if none
    \* history (observations, not read by the program)
    ev,             \* what the last step did to the queue's transport send
    lastAttempt,    \* id of the envelope most recently handed to the transport
    delivered,      \* ids whose send succeeded
    dropped,        \* ids removed after MAX_ATTEMPTS failed sends
    addedReady,     \* some envelope was enqueued while isBotReady was true
    \* clock
    now,            \* Date.now()
    ticks,          \* clock advances so far
    \* AntiSpam
    messages,       \* this.messages : userId -> timestamps
    banned,         \* this.banned
    banTimers,      \* pending setTimeout(() => this.banned.delete(userId), ...)
    \* history of the rate limiter (observations, not read by the program)
    nChecks,        \* inbound messages handled so far
    banAt,          \* userId -> time of the latest ban(), -1 if never banned
    evHist,         \* userId -> times, still inside the window, of the events
                    \* that arrived while the sender was not banned
    last,           \* outcome of the latest inbound message
    admHist,        \* userId -> times, still inside the window, of the events
                    \* check() allowed
    \* OTP store and sessions
    otps,           \* data/otp.json : key -> [code, expires, attempts]
    otpPending,     \* cmdSendOTP calls suspended on their direct send
    activeSessions, \* activeSessions : the sessions minted, in order
    users,          \* keys of data/users.json
    \* history of the verify route (observations, not read by the program)
    nVerifies,      \* verify requests handled so far
    nIssues,        \* OTP issuances started so far
    usedKeys,       \* keys verified successfully since their latest issue
    vres,           \* the latest verify request and its outcome
    \* admin routes
    pendingSends,   \* sendNotification calls awaiting ndii.sendMessage
    nAdmin,         \* history: requests to the admin routes so far
    ares,           \* history: the latest admin request and its outcome
    \* serverless login handlers (api/auth) over the key-value store
    kv,             \* the value under `otp:${target}` with its time to live
    kvSessions,     \* requests whose `session:${sessionId}` key was written
    kvUser,         \* the key `user:${target}` exists
    reqs,           \* handler invocations: [kind, pc, code, otp, result]
    lastIssued,     \* history: the issue request whose kv.set was applied last
    \* sendOTP of src/index.js
    ires,           \* history: the latest sendOTP call that returned: what it
                    \* stored, and whether its sendMessage got the text accepted
                    \* by the transport (sent) or appended to a queue (queued)
    \* callers' input to the queue
    noDest          \* history: ids of the envelopes added without a `to` field

queueVars == <<queue, disk, processing, drains, timers, nextId, restarts>>
supVars   == <<isBotReady, conn, reconnectAttempts, reconnectTimer, openWait, sockets,
               lastDelay, taskSets>>
histVars  == <<ev, lastAttempt, delivered, dropped, addedReady>>
spamVars  == <<now, ticks, messages, banned, banTimers, nChecks, banAt, evHist, last,
               admHist>>
apiVars   == <<pendingSends, nAdmin, ares>>
idxVars   == <<ires>>
obsVars   == <<noDest>>
kvVars    == <<kv, kvSessions, kvUser, reqs, lastIssued>>
otpVars   == <<otps, otpPending, activeSessions, users, nVerifies, nIssues, usedKeys, vres,
               apiVars, kvVars, idxVars, obsVars>>
vars      == <<queueVars, supVars, histVars, spamVars, otpVars>>

\* ---------------------------------------------------------------- helpers
Ids == 1..(MaxEnq + 1)

NoEv == [type |-> "other", id |-> 0, ok |-> FALSE]

InQueue(q, id) == \E i \in 1..Len(q) : q[i].id = id

AttemptsOf(q, id) ==
    IF InQueue(q, id) THEN (CHOOSE e \in {q[i] : i \in 1..Len(q)} : e.id = id).attempts
    ELSE 0

IncAttempts_Requeue(q, id) ==
    LET q1 == [i \in 1..Len(q) |->
                  IF q[i].id = id THEN [q[i] EXCEPT !.attempts = @ + 1] ELSE q[i]]
    IN IF Len(q1) > 0 /\ q1[1].id = id THEN Append(Tail(q1), q1[1]) ELSE q1

\* msg.attempts++ on the object captured by process(); the object is shared
\* with the array element of the same identity
IncAttempts(q, id) ==
    [i \in 1..Len(q) |->
        IF q[i].id = id THEN [q[i] EXCEPT !.attempts = @ + 1] ELSE q[i]]

\* msg.attempts >= 3, evaluated after the increment
Exhausted_Late(a) == a > MAX_ATTEMPTS

Exhausted_Never(a) == FALSE

Exhausted_Early(a) == a >= MAX_ATTEMPTS - 1

Exhausted(a) == a >= MAX_ATTEMPTS

Shift_Last(q) == IF q = <<>> THEN q ELSE SubSeq(q, 1, Len(q) - 1)

\* Array.prototype.shift(): removes the first element, if any
Shift(q) == IF q = <<>> THEN q ELSE Tail(q)

RemoveAt(s, i) == [j \in 1..(Len(s) - 1) |-> IF j < i THEN s[j] ELSE s[j + 1]]

\* Math.min(RECONNECT_INTERVAL * Math.pow(2, n - 1), 60000)
Min(a, b) == IF a < b THEN a ELSE b
ReconnectDelay(n) == Min(RECONNECT_INTERVAL * (2 ^ (n - 1)), RECONNECT_CAP)

\* ------------------------------------------------------------------- Init
InitQueue ==
    /\ queue = <<>>
    /\ disk = <<>>
    /\ processing = FALSE
    /\ drains = <<>>
    /\ timers = 0
    /\ nextId = 1
    /\ restarts = 0

InitSup ==
    /\ isBotReady = FALSE
    /\ conn = "connecting"          \* startBot() runs at module load
    /\ reconnectAttempts = 0
    /\ reconnectTimer = <<>>
    /\ openWait = 0
    /\ sockets = 1
    /\ lastDelay = 0
    /\ taskSets = 0

InitHist ==
    /\ ev = NoEv
    /\ lastAttempt = 0
    /\ delivered = {}
    /\ dropped = {}
    /\ addedReady = FALSE

InitSpam ==
    /\ now = 0
    /\ ticks = 0
    /\ messages = [u \in Senders |-> <<>>]
    /\ banned = {}
    /\ banTimers = <<>>
    /\ nChecks = 0
    /\ banAt = [u \in Senders |-> -1]
    /\ evHist = [u \in Senders |-> <<>>]
    /\ admHist = [u \in Senders |-> <<>>]
    /\ last = [sender |-> "a", allowed |-> TRUE, reason |-> "none", remaining |-> 0,
               processed |-> FALSE, warned |-> FALSE, at |-> -1]

\* phone.replace(/[^0-9]/g, '')
Normalise(phone) == SelectSeq(phone, LAMBDA c : c \in Digits)

\* every property name data/otp.json is read or written under
OtpKeys == Targets \cup {Normalise(t) : t \in Targets}

\* the value of otps[key] for a key the object does not have
NoRec == [code |-> "", expires |-> -1, attempts |-> -1]

InitOtp ==
    /\ otps = [k \in OtpKeys |-> NoRec]
    /\ otpPending = <<>>
    /\ activeSessions = <<>>
    /\ users = {}
    /\ nVerifies = 0
    /\ nIssues = 0
    /\ usedKeys = {}
    /\ vres = [target |-> <<>>, code |-> "", admin |-> FALSE, result |-> "none"]
    /\ pendingSends = 0
    /\ nAdmin = 0
    /\ ares = [sid |-> 0, op |-> "none", status |-> 0]

\* the value kv.get answers for a key the store does not hold; by is the
\* issue request that wrote a record (history, not read by the handlers)
NoKv == [code |-> "", expires |-> -1, attempts |-> -1, ex |-> -1, by |-> 0]

InitKv ==
    /\ kv = NoKv
    /\ kvSessions = {}
    /\ kvUser = FALSE
    /\ reqs = <<>>
    /\ lastIssued = 0

\* no sendOTP call of src/index.js has returned yet
InitIdx ==
    ires = [target |-> <<>>, code |-> "", submitted |-> 0, stored |-> FALSE,
            sent |-> FALSE, queued |-> FALSE]

InitObs == noDest = {}

Init ==
    InitQueue /\ InitSup /\ InitHist /\ InitSpam /\ InitOtp /\ InitKv /\ InitIdx /\ InitObs

\* ------------------------------------------------- MessageQueue.process()
\* The synchronous prefix of process(): the guard, processing = true and the
\* call of this.send(msg) for the head.  q, p, ds, la are the values of
\* queue, processing, drains and lastAttempt at the call; ready is isBotReady.
ProcessGuard_IgnoreReady(q, p, ready) == ~(p \/ Len(q) = 0)

ProcessGuard_IgnoreProcessing(q, p, ready) == ~(Len(q) = 0 \/ ~ready)

ProcessGuard(q, p, ready) == ~(p \/ Len(q) = 0 \/ ~ready)

ProcessCall(q, p, ds, la, ready) ==
    IF ProcessGuard(q, p, ready)
    THEN [processing |-> TRUE,
          drains |-> Append(ds, [id |-> q[1].id, phase |-> "send"]),
          lastAttempt |-> q[1].id]
    ELSE [processing |-> p, drains |-> ds, lastAttempt |-> la]

\* MessageQueue.add(message)
Add ==
    /\ UNCHANGED <<spamVars, otpVars>>
    /\ nextId <= MaxEnq
    /\ LET q1 == Append(queue, [id |-> nextId, attempts |-> 0])
           r  == ProcessCall(q1, processing, drains, lastAttempt, isBotReady)
       IN /\ queue' = q1
          /\ disk' = q1
          /\ processing' = r.processing
          /\ drains' = r.drains
          /\ lastAttempt' = r.lastAttempt
    /\ nextId' = nextId + 1
    /\ addedReady' = (addedReady \/ isBotReady)
    /\ ev' = NoEv
    /\ UNCHANGED <<timers, restarts, supVars, delivered, dropped>>

\* the callback of setTimeout(() => this.process(), 1000)
TimerFire ==
    /\ UNCHANGED <<spamVars, otpVars>>
    /\ timers > 0
    /\ timers' = timers - 1
    /\ LET r == ProcessCall(queue, processing, drains, lastAttempt, isBotReady)
       IN /\ processing' = r.processing
          /\ drains' = r.drains
          /\ lastAttempt' = r.lastAttempt
    /\ ev' = NoEv
    /\ UNCHANGED <<queue, disk, nextId, restarts, supVars, delivered, dropped, addedReady>>

ProcessTail_NoRearm(q) ==
    /\ processing' = FALSE
    /\ timers' = timers

\* the tail of process(): this.processing = false and the re-arming timer
ProcessTail(q) ==
    /\ processing' = FALSE
    /\ timers' = IF Len(q) > 0 THEN timers + 1 ELSE timers

\* await this.send(msg) resolved: shift, save, then the tail
SendOk(i) ==
    /\ UNCHANGED <<spamVars, otpVars>>
    /\ i \in 1..Len(drains)
    /\ drains[i].phase = "send"
    /\ Len(Shift(queue)) > 0 => timers < MaxTimers
    /\ LET q1 == Shift(queue)
       IN /\ queue' = q1
          /\ disk' = q1
          /\ ProcessTail(q1)
    /\ drains' = RemoveAt(drains, i)
    /\ delivered' = delivered \cup {drains[i].id}
    /\ ev' = [type |-> "settle", id |-> drains[i].id, ok |-> TRUE]
    /\ UNCHANGED <<nextId, restarts, supVars, lastAttempt, dropped, addedReady>>

\* await this.send(msg) rejected: attempts++, drop at 3, save, await delay(2000)
SendFail(i) ==
    /\ UNCHANGED <<spamVars, otpVars>>
    /\ i \in 1..Len(drains)
    /\ drains[i].phase = "send"
    /\ LET id == drains[i].id
           q1 == IncAttempts(queue, id)
           q2 == IF Exhausted(AttemptsOf(queue, id) + 1) THEN Shift(q1) ELSE q1
       IN /\ queue' = q2
          /\ disk' = q2
    /\ drains' = [drains EXCEPT ![i].phase = "delay"]
    /\ dropped' = IF AttemptsOf(queue, drains[i].id) + 1 >= MAX_ATTEMPTS
                  THEN dropped \cup {drains[i].id} ELSE dropped
    /\ ev' = [type |-> "settle", id |-> drains[i].id, ok |-> FALSE]
    /\ UNCHANGED <<processing, timers, nextId, restarts, supVars, lastAttempt,
                   delivered, addedReady>>

\* await delay(2000) elapsed after a failed send, then the tail
DelayDone(i) ==
    /\ UNCHANGED <<spamVars, otpVars>>
    /\ i \in 1..Len(drains)
    /\ drains[i].phase = "delay"
    /\ Len(queue) > 0 => timers < MaxTimers
    /\ ProcessTail(queue)
    /\ drains' = RemoveAt(drains, i)
    /\ ev' = NoEv
    /\ UNCHANGED <<queue, disk, nextId, restarts, supVars, lastAttempt,
                   delivered, dropped, addedReady>>

\* ------------------------------------------------- connection supervisor
\* handleReconnect(): n is reconnectAttempts, ts the pending startBot timers
HandleReconnect(n, ts) ==
    LET n1 == n + 1
    IN IF n1 > MAX_RECONNECT_ATTEMPTS
       THEN [reconnectAttempts |-> n1, reconnectTimer |-> Append(ts, RESTART_COOLDOWN)]
       ELSE [reconnectAttempts |-> n1, reconnectTimer |-> Append(ts, ReconnectDelay(n1))]

AfterFire_Repeats(ts, i) == ts

\* setTimeout: a timer that fired is no longer pending
AfterFire(ts, i) == RemoveAt(ts, i)

\* the callback of setTimeout(startBot, delay); startBot() either builds a
\* new socket (which starts connecting) or throws and calls handleReconnect();
\* cap bounds the reconnectAttempts counter
StartBot(i, ok, cap) ==
    /\ UNCHANGED <<spamVars, otpVars>>
    /\ i \in 1..Len(reconnectTimer)
    /\ IF ok
       THEN /\ conn' = "connecting"
            /\ sockets' = sockets + 1
            /\ reconnectTimer' = AfterFire(reconnectTimer, i)
            /\ UNCHANGED <<reconnectAttempts, lastDelay>>
       ELSE /\ reconnectAttempts < cap
            /\ UNCHANGED sockets
            /\ LET r == HandleReconnect(reconnectAttempts, AfterFire(reconnectTimer, i))
               IN /\ reconnectAttempts' = r.reconnectAttempts
                  /\ reconnectTimer' = r.reconnectTimer
                  /\ lastDelay' = r.reconnectTimer[Len(r.reconnectTimer)]
            /\ UNCHANGED conn
    /\ ev' = NoEv
    /\ UNCHANGED <<queueVars, isBotReady, openWait, taskSets, lastAttempt, delivered, dropped,
                   addedReady>>

\* startScheduledTasks(): four cron.schedule(...) calls, whatever was
\* registered before; n counts the calls and is followed up to cap (a
\* specification that passes 0 does not follow the registrations)
StartScheduledTasks(n, cap) == IF n < cap THEN n + 1 ELSE n

\* handleConnectionUpdate({connection: 'open'}).  With settings.adminNumber
\* set the handler suspends on the start-up notification (a direct send,
\* since isBotReady is already true) before it reaches messageQueue.process()
Open(admin, cap) ==
    /\ UNCHANGED <<spamVars, otpVars>>
    /\ conn = "connecting"
    /\ conn' = "open"
    /\ isBotReady' = TRUE
    /\ reconnectAttempts' = 0
    /\ lastDelay' = 0
    /\ IF admin
       THEN /\ openWait < MaxOpenWait
            /\ openWait' = openWait + 1
            /\ UNCHANGED <<processing, drains, lastAttempt, taskSets>>
       ELSE /\ taskSets' = StartScheduledTasks(taskSets, cap)
            /\ LET r == ProcessCall(queue, processing, drains, lastAttempt, TRUE)
               IN /\ processing' = r.processing
                  /\ drains' = r.drains
                  /\ lastAttempt' = r.lastAttempt
            /\ UNCHANGED openWait
    /\ ev' = NoEv
    /\ UNCHANGED <<queue, disk, timers, nextId, restarts, reconnectTimer, sockets,
                   delivered, dropped, addedReady>>

\* the 'open' handler resumes after await sendMessage(adminNumber, ...): a
\* failed direct send was queued by sendMessage's catch (messageQueue.add);
\* then startScheduledTasks() and messageQueue.process()
OpenResume(ok, cap) ==
    /\ UNCHANGED <<spamVars, otpVars>>
    /\ openWait > 0
    /\ openWait' = openWait - 1
    /\ taskSets' = StartScheduledTasks(taskSets, cap)
    /\ IF ok
       THEN /\ LET r == ProcessCall(queue, processing, drains, lastAttempt, isBotReady)
               IN /\ processing' = r.processing
                  /\ drains' = r.drains
                  /\ lastAttempt' = r.lastAttempt
            /\ UNCHANGED <<queue, disk, nextId, addedReady>>
       ELSE /\ nextId <= MaxEnq
            /\ LET q1 == Append(queue, [id |-> nextId, attempts |-> 0])
                   r1 == ProcessCall(q1, processing, drains, lastAttempt, isBotReady)
                   r2 == ProcessCall(q1, r1.processing, r1.drains, r1.lastAttempt, isBotReady)
               IN /\ queue' = q1
                  /\ disk' = q1
                  /\ processing' = r2.processing
                  /\ drains' = r2.drains
                  /\ lastAttempt' = r2.lastAttempt
            /\ nextId' = nextId + 1
            /\ addedReady' = (addedReady \/ isBotReady)
    /\ ev' = NoEv
    /\ UNCHANGED <<timers, restarts, isBotReady, conn, reconnectAttempts,
                   reconnectTimer, sockets, lastDelay, delivered, dropped>>

ShouldReconnect_Always(loggedOut) == TRUE

\* shouldReconnect = statusCode !== DisconnectReason.loggedOut
ShouldReconnect(loggedOut) == ~loggedOut

\* handleConnectionUpdate({connection: 'close'}); loggedOut tells whether
\* the status code is DisconnectReason.loggedOut
Close(loggedOut, cap) ==
    /\ UNCHANGED <<spamVars, otpVars>>
    /\ conn \in {"connecting", "open"}
    /\ isBotReady' = FALSE
    /\ conn' = IF loggedOut THEN "loggedOut" ELSE "closed"
    /\ sockets' = sockets - 1
    /\ IF ShouldReconnect(loggedOut)
       THEN /\ reconnectAttempts < cap
            /\ LET r == HandleReconnect(reconnectAttempts, reconnectTimer)
               IN /\ reconnectAttempts' = r.reconnectAttempts
                  /\ reconnectTimer' = r.reconnectTimer
                  /\ lastDelay' = r.reconnectTimer[Len(r.reconnectTimer)]
       ELSE UNCHANGED <<reconnectAttempts, reconnectTimer, lastDelay>>
    /\ ev' = NoEv
    /\ UNCHANGED <<queueVars, openWait, taskSets, lastAttempt, delivered, dropped, addedReady>>

\* handleConnectionUpdate({qr}): a QR code is offered while the socket is
\* connecting; the handler resets the counter
Qr ==
    /\ UNCHANGED <<spamVars, otpVars>>
    /\ conn = "connecting"
    /\ reconnectAttempts' = 0
    /\ lastDelay' = 0
    /\ ev' = NoEv
    /\ UNCHANGED <<queueVars, isBotReady, conn, reconnectTimer, openWait, sockets, taskSets,
                   lastAttempt, delivered, dropped, addedReady>>

Load_Empty(d) == <<>>

\* load(): this.queue = DB.get(FILES.QUEUE).messages || []; d is the array
\* last written to queue.json, empty when the file has none
Load(d) == d

\* the process is restarted: module state is rebuilt, the MessageQueue
\* constructor reloads queue.json and startBot() runs again
Restart ==
    /\ UNCHANGED <<spamVars, otpVars>>
    /\ restarts < MaxRestarts
    /\ restarts' = restarts + 1
    /\ queue' = Load(disk)
    /\ processing' = FALSE
    /\ drains' = <<>>
    /\ timers' = 0
    /\ isBotReady' = FALSE
    /\ conn' = "connecting"
    /\ reconnectAttempts' = 0
    /\ reconnectTimer' = <<>>
    /\ openWait' = 0
    /\ sockets' = 1
    /\ lastDelay' = 0
    /\ taskSets' = 0
    /\ ev' = NoEv
    /\ UNCHANGED <<disk, nextId, lastAttempt, delivered, dropped, addedReady>>

NextQueue ==
    \/ Add
    \/ TimerFire
    \/ \E i \in 1..Len(drains) : SendOk(i)
    \/ \E i \in 1..Len(drains) : SendFail(i)
    \/ \E i \in 1..Len(drains) : DelayDone(i)
    \/ \E i \in 1..Len(reconnectTimer), ok \in BOOLEAN : StartBot(i, ok, MaxReconnectQ)
    \/ \E admin \in BOOLEAN : Open(admin, 0)
    \/ \E ok \in BOOLEAN : OpenResume(ok, 0)
    \/ \E lo \in BOOLEAN : Close(lo, MaxReconnectQ)
    \/ Qr
    \/ Restart

SpecQueue == Init /\ [][NextQueue]_vars

\* ------------------------------------------- failing writes of queue.json
\* add(message) when save() throws (fs.writeJsonSync fails): the push has
\* happened, the exception leaves add() before this.process() is called
AddSaveFail ==
    /\ UNCHANGED <<spamVars, otpVars>>
    /\ nextId <= MaxEnq
    /\ queue' = Append(queue, [id |-> nextId, attempts |-> 0])
    /\ nextId' = nextId + 1
    /\ addedReady' = (addedReady \/ isBotReady)
    /\ ev' = NoEv
    /\ UNCHANGED <<disk, processing, drains, timers, restarts, supVars,
                   lastAttempt, delivered, dropped>>

\* the number of envelopes the catch block of process() removes when the
\* save() after a successful send throws: msg.attempts++ is applied to the
\* envelope that was just shifted out, and at MAX_ATTEMPTS queue.shift()
\* runs once more
CatchShift(a, q) == IF Exhausted(a + 1) THEN Shift(q) ELSE q

\* await this.send(msg) resolved, queue.shift() done, and the save() that
\* follows throws: control enters the catch block, whose own save() either
\* succeeds (retryOk; then await delay(2000) and the tail) or throws again,
\* in which case process() rejects with this.processing left true
SendOkSaveFail(i, retryOk) ==
    /\ UNCHANGED <<spamVars, otpVars>>
    /\ i \in 1..Len(drains)
    /\ drains[i].phase = "send"
    /\ LET id == drains[i].id
           q2 == CatchShift(AttemptsOf(queue, id), Shift(queue))
       IN /\ queue' = q2
          /\ disk' = IF retryOk THEN q2 ELSE disk
          /\ delivered' = delivered \cup {id}
          /\ ev' = [type |-> "settle", id |-> id, ok |-> TRUE]
    /\ drains' = IF retryOk THEN [drains EXCEPT ![i].phase = "delay"]
                 ELSE RemoveAt(drains, i)
    /\ UNCHANGED <<processing, timers, nextId, restarts, supVars, lastAttempt,
                   dropped, addedReady>>

\* await this.send(msg) rejected and the save() of the catch block throws:
\* attempts++ and the shift at MAX_ATTEMPTS have happened, process() rejects
\* with this.processing left true
SendFailSaveFail(i) ==
    /\ UNCHANGED <<spamVars, otpVars>>
    /\ i \in 1..Len(drains)
    /\ drains[i].phase = "send"
    /\ LET id == drains[i].id
           q1 == IncAttempts(queue, id)
       IN /\ queue' = IF Exhausted(AttemptsOf(queue, id) + 1) THEN Shift(q1) ELSE q1
          /\ dropped' = IF Exhausted(AttemptsOf(queue, id) + 1)
                        THEN dropped \cup {id} ELSE dropped
          /\ ev' = [type |-> "settle", id |-> id, ok |-> FALSE]
    /\ drains' = RemoveAt(drains, i)
    /\ UNCHANGED <<disk, processing, timers, nextId, restarts, supVars, lastAttempt,
                   delivered, addedReady>>

NextFault ==
    \/ NextQueue
    \/ AddSaveFail
    \/ \E i \in 1..Len(drains), retryOk \in BOOLEAN : SendOkSaveFail(i, retryOk)
    \/ \E i \in 1..Len(drains) : SendFailSaveFail(i)

SpecFault == Init /\ [][NextFault]_vars

\* ------------------------------------------- envelopes without destination
\* add(message) for a message that has no `to`: add() checks nothing, so the
\* steps are those of any add()
AddNoDest ==
    /\ nextId <= MaxEnq
    /\ LET q1 == Append(queue, [id |-> nextId, attempts |-> 0])
           r  == ProcessCall(q1, processing, drains, lastAttempt, isBotReady)
       IN /\ queue' = q1
          /\ disk' = q1
          /\ processing' = r.processing
          /\ drains' = r.drains
          /\ lastAttempt' = r.lastAttempt
    /\ nextId' = nextId + 1
    /\ addedReady' = (addedReady \/ isBotReady)
    /\ noDest' = noDest \cup {nextId}
    /\ ev' = NoEv
    /\ UNCHANGED <<timers, restarts, supVars, delivered, dropped, spamVars, otps,
                   otpPending, activeSessions, users, nVerifies, nIssues, usedKeys, vres,
                   apiVars, kvVars, idxVars>>

\* send(msg) of an envelope without `to` throws at msg.to.includes('@')
\* before it reaches the transport, so its send never resolves
SendResolves(id) == id \notin noDest

NextNoDest ==
    \/ Add
    \/ AddNoDest
    \/ TimerFire
    \/ \E i \in 1..Len(drains) : SendResolves(drains[i].id) /\ SendOk(i)
    \/ \E i \in 1..Len(drains) : SendFail(i)
    \/ \E i \in 1..Len(drains) : DelayDone(i)
    \/ \E i \in 1..Len(reconnectTimer), ok \in BOOLEAN : StartBot(i, ok, MaxReconnectQ)
    \/ \E admin \in BOOLEAN : Open(admin, 0)
    \/ \E ok \in BOOLEAN : OpenResume(ok, 0)
    \/ \E lo \in BOOLEAN : Close(lo, MaxReconnectQ)
    \/ Qr
    \/ Restart

SpecNoDest == Init /\ [][NextNoDest]_vars

\* the same program with the reconnect counter followed past its ceiling
\* and the calls of startScheduledTasks() counted
NextSup ==
    \/ Add
    \/ TimerFire
    \/ \E i \in 1..Len(drains) : SendOk(i)
    \/ \E i \in 1..Len(drains) : SendFail(i)
    \/ \E i \in 1..Len(drains) : DelayDone(i)
    \/ \E i \in 1..Len(reconnectTimer), ok \in BOOLEAN : StartBot(i, ok, MaxReconnect)
    \/ \E admin \in BOOLEAN : Open(admin, MaxTaskSets)
    \/ \E ok \in BOOLEAN : OpenResume(ok, MaxTaskSets)
    \/ \E lo \in BOOLEAN : Close(lo, MaxReconnect)
    \/ Qr
    \/ Restart

SpecSup == Init /\ [][NextSup]_vars

TypeOKQueue ==
    /\ processing \in BOOLEAN
    /\ isBotReady \in BOOLEAN
    /\ timers \in 0..MaxTimers
    /\ \A i \in 1..Len(queue) : queue[i].attempts \in 0..MAX_ATTEMPTS

\* ---------------------------------------------------------------- AntiSpam
GetRemainingBlock_Zero(userId) == 0

\* getRemainingBlock(userId): "Simplified", always the full block duration
GetRemainingBlock(userId) == BLOCK_DURATION

InWindow_Half(t, at) == 2 * (at - t) < LIMIT_WINDOW

\* the filter predicate  now - time < this.limits.window
InWindow(t, at) == at - t < LIMIT_WINDOW

OverLimit_AtLimit(n) == n >= LIMIT_MESSAGES

\* recent.length > this.limits.messages
OverLimit(n) == n > LIMIT_MESSAGES

BanDue_Window(at) == at + LIMIT_WINDOW

\* the expiry of the timer armed by ban(): now + this.limits.blockDuration
BanDue(at) == at + BLOCK_DURATION

\* AntiSpam.check(userId) with ban(userId) inlined: the result and the new
\* values of messages, banned and banTimers
Check(userId) ==
    LET stillBanned == userId \in banned /\ GetRemainingBlock(userId) > 0
        banned1 == banned \ {userId}
        inWin(t) == InWindow(t, now)
        recent == Append(SelectSeq(messages[userId], inWin), now)
    IN IF stillBanned
       THEN [allowed |-> FALSE, reason |-> "banned",
             remaining |-> GetRemainingBlock(userId),
             messages |-> messages, banned |-> banned, banTimers |-> banTimers]
       ELSE IF OverLimit(Len(recent))
       THEN [allowed |-> FALSE, reason |-> "spam_detected",
             remaining |-> BLOCK_DURATION,
             messages |-> [messages EXCEPT ![userId] = recent],
             banned |-> banned1 \cup {userId},
             banTimers |-> Append(banTimers, [user |-> userId, due |-> BanDue(now)])]
       ELSE [allowed |-> TRUE, reason |-> "none", remaining |-> 0,
             messages |-> [messages EXCEPT ![userId] = recent],
             banned |-> banned1, banTimers |-> banTimers]

\* handleMessages: if (!spamCheck.allowed) { ...; continue; }
Admitted(r) == r.allowed

\* handleMessages for one inbound message of sender: the anti-spam check,
\* the warning on spam_detected, and otherwise the processing of the message
\* (saveMessage, updateUserActivity, command / auto-reply)
HandleMessage(sender) ==
    /\ nChecks < MaxChecks
    /\ nChecks' = nChecks + 1
    /\ LET r == Check(sender)
       IN /\ messages' = r.messages
          /\ banned' = r.banned
          /\ banTimers' = r.banTimers
          /\ last' = [sender |-> sender, allowed |-> r.allowed, reason |-> r.reason,
                      remaining |-> r.remaining,
                      processed |-> Admitted(r),
                      warned |-> (~r.allowed /\ r.reason = "spam_detected"),
                      at |-> now]
          /\ banAt' = IF r.reason = "spam_detected"
                      THEN [banAt EXCEPT ![sender] = now] ELSE banAt
          /\ admHist' = IF r.allowed
                        THEN [admHist EXCEPT ![sender] = Append(@, now)] ELSE admHist
    /\ evHist' = IF sender \in banned THEN evHist
                 ELSE [evHist EXCEPT ![sender] = Append(@, now)]
    /\ UNCHANGED <<now, ticks, queueVars, supVars, histVars, otpVars>>

\* the callback armed by ban(): this.banned.delete(userId); a timer never
\* fires before its delay has elapsed
BanTimerFire(i) ==
    /\ i \in 1..Len(banTimers)
    /\ banTimers[i].due <= now
    /\ banned' = banned \ {banTimers[i].user}
    /\ banTimers' = RemoveAt(banTimers, i)
    /\ UNCHANGED <<now, ticks, messages, nChecks, banAt, evHist, last, admHist,
                   queueVars, supVars, histVars, otpVars>>

\* time passes; cap bounds the number of clock advances
Tick(d, cap) ==
    /\ ticks < cap
    /\ ticks' = ticks + 1
    /\ now' = now + d
    /\ evHist' = [u \in Senders |->
                     SelectSeq(evHist[u], LAMBDA t : now + d - t < LIMIT_WINDOW)]
    /\ admHist' = [u \in Senders |->
                      SelectSeq(admHist[u], LAMBDA t : now + d - t < LIMIT_WINDOW)]
    /\ UNCHANGED <<messages, banned, banTimers, nChecks, banAt, last,
                   queueVars, supVars, histVars, otpVars>>

NextSpam ==
    \/ \E u \in Senders : HandleMessage(u)
    \/ \E i \in 1..Len(banTimers) : BanTimerFire(i)
    \/ \E d \in {TimeStep, BLOCK_DURATION - TimeStep} : Tick(d, MaxTicks)

SpecSpam == Init /\ [][NextSpam]_vars

\* ------------------------------------------------- OTP issue and verify
StoreOtp_Raw(o, phone, code) ==
    [o EXCEPT ![phone] =
        [code |-> code, expires |-> now + OTP_TTL, attempts |-> 0]]

\* DB.update(FILES.OTP, formatted, {code, expires, attempts: 0}) at the end
\* of cmdSendOTP
StoreOtp(o, phone, code) ==
    [o EXCEPT ![Normalise(phone)] =
        [code |-> code, expires |-> now + OTP_TTL, attempts |-> 0]]

\* messageQueue.add(...) as called from sendMessage: the new values of
\* queue, processing, drains and lastAttempt
AddCall ==
    LET q1 == Append(queue, [id |-> nextId, attempts |-> 0])
        r  == ProcessCall(q1, processing, drains, lastAttempt, isBotReady)
    IN [queue |-> q1, processing |-> r.processing, drains |-> r.drains,
        lastAttempt |-> r.lastAttempt]

\* botAPI.sendOTP(phone) -> cmdSendOTP(phone, code), up to the record being
\* stored or the direct send being awaited.  Not ready: sendMessage queues
\* the text and returns, and the record is stored.  Ready: sendMessage awaits
\* ndii.sendMessage and cmdSendOTP is suspended before its DB.update.
Issue(phone, code) ==
    /\ nIssues < MaxIssues
    /\ nIssues' = nIssues + 1
    /\ IF ~isBotReady
       THEN
         /\ nextId <= MaxEnq
         /\ LET r == AddCall
            IN /\ queue' = r.queue
               /\ disk' = r.queue
               /\ processing' = r.processing
               /\ drains' = r.drains
               /\ lastAttempt' = r.lastAttempt
         /\ nextId' = nextId + 1
         /\ addedReady' = addedReady
         /\ otps' = StoreOtp(otps, phone, code)
         /\ usedKeys' = usedKeys \ {Normalise(phone)}
         /\ ev' = NoEv
         /\ UNCHANGED <<timers, restarts, supVars, delivered, dropped, spamVars,
                        otpPending, activeSessions, users, nVerifies, vres, apiVars,
                        kvVars, idxVars, obsVars>>
       ELSE
         /\ Len(otpPending) < MaxPending
         /\ otpPending' = Append(otpPending, [phone |-> phone, code |-> code])
         /\ UNCHANGED <<queueVars, supVars, histVars, spamVars,
                        otps, activeSessions, users, nVerifies, usedKeys, vres, apiVars,
                        kvVars, idxVars, obsVars>>

\* cmdSendOTP resumes after await sendMessage(...): a failed direct send was
\* queued by sendMessage's catch; then the record is stored
IssueResume(i, ok) ==
    /\ i \in 1..Len(otpPending)
    /\ otpPending' = RemoveAt(otpPending, i)
    /\ otps' = StoreOtp(otps, otpPending[i].phone, otpPending[i].code)
    /\ usedKeys' = usedKeys \ {Normalise(otpPending[i].phone)}
    /\ IF ok
       THEN UNCHANGED <<queueVars, histVars>>
       ELSE /\ nextId <= MaxEnq
            /\ LET r == AddCall
               IN /\ queue' = r.queue
                  /\ disk' = r.queue
                  /\ processing' = r.processing
                  /\ drains' = r.drains
                  /\ lastAttempt' = r.lastAttempt
            /\ nextId' = nextId + 1
            /\ addedReady' = (addedReady \/ isBotReady)
            /\ ev' = NoEv
            /\ UNCHANGED <<timers, restarts, delivered, dropped>>
    /\ UNCHANGED <<supVars, spamVars, activeSessions, users, nVerifies, nIssues, vres,
                   apiVars, kvVars, idxVars, obsVars>>

IsExpired_Never(rec) == FALSE

\* data.expires < Date.now()
IsExpired(rec) == rec.expires < now

\* !(data.code !== code)
CodeMatches(rec, code) == rec.code = code

\* the property removed by  delete otps[phone]
DeleteKey(phone) == phone

\* botAPI.verifyOTP(phone, code): the outcome and the new content of otp.json
VerifyOTP(phone, code) ==
    LET key  == Normalise(phone)
        data == otps[key]
    IN IF data = NoRec
       THEN [valid |-> FALSE, result |-> "NotFound", otps |-> otps]
       ELSE IF IsExpired(data)
       THEN [valid |-> FALSE, result |-> "Expired", otps |-> otps]
       ELSE IF ~CodeMatches(data, code)
       THEN [valid |-> FALSE, result |-> "Mismatch",
             otps |-> [otps EXCEPT ![key].attempts = @ + 1]]
       ELSE [valid |-> TRUE, result |-> "Verified",
             otps |-> [otps EXCEPT ![DeleteKey(phone)] = NoRec]]

AdminShortCircuit_Never(admin) == FALSE

\* if (adminCode === ADMIN_SECRET) { ...; return res.json(...) }, placed
\* before the call of botAPI.verifyOTP; admin tells whether the request
\* carries the secret
AdminShortCircuit(admin) == admin

\* POST /api/auth/verify: the admin secret mints an admin session; otherwise
\* botAPI.verifyOTP decides, and a valid result mints a user session and
\* registers the user
Verify(phone, code, admin) ==
    /\ nVerifies < MaxVerifies
    /\ nVerifies' = nVerifies + 1
    /\ IF AdminShortCircuit(admin)
       THEN /\ activeSessions' = Append(activeSessions, [role |-> "admin", name |-> <<>>])
            /\ vres' = [target |-> <<>>, code |-> "", admin |-> TRUE, result |-> "Admin"]
            /\ UNCHANGED <<otps, users, usedKeys>>
       ELSE LET r == VerifyOTP(phone, code)
            IN /\ otps' = r.otps
               /\ vres' = [target |-> phone, code |-> code, admin |-> admin,
                           result |-> r.result]
               /\ IF r.valid
                  THEN /\ activeSessions' =
                              Append(activeSessions, [role |-> "user", name |-> phone])
                       /\ users' = users \cup {Normalise(phone)}
                       /\ usedKeys' = usedKeys \cup {Normalise(phone)}
                  ELSE UNCHANGED <<activeSessions, users, usedKeys>>
    /\ UNCHANGED <<otpPending, nIssues, queueVars, supVars, histVars, spamVars, apiVars,
                   kvVars, idxVars, obsVars>>

NextOtp ==
    \/ \E t \in Targets, c \in Codes : Issue(t, c)
    \/ \E i \in 1..Len(otpPending), ok \in BOOLEAN : IssueResume(i, ok)
    \/ \E t \in Targets, c \in Codes, admin \in BOOLEAN : Verify(t, c, admin)
    \/ \E d \in {TimeStep, OTP_TTL - TimeStep} : Tick(d, MaxTicksOtp)

\* ----------------------------------------------------------- admin routes
\* the value of activeSessions.get(sessionId) for an id the map does not hold
NoSession == [role |-> "none", name |-> <<>>]

\* activeSessions.get(sessionId); session ids are numbered in minting order,
\* 0 stands for a request without an id
SessionOf(sid) ==
    IF sid \in 1..Len(activeSessions) THEN activeSessions[sid] ELSE NoSession

\* requireAuth: if (!session) return res.status(401)
RequireAuth(session) == session # NoSession

RequireAdmin_AnySession(session) == TRUE

\* requireAdmin: if (!req.session || req.session.role !== 'admin') return 403
RequireAdmin(session) == session # NoSession /\ session.role = "admin"

\* the status the middleware chain answers with, 200 when it calls next()
AuthStatus(sid) ==
    IF ~RequireAuth(SessionOf(sid)) THEN 401
    ELSE IF ~RequireAdmin(SessionOf(sid)) THEN 403
    ELSE 200

\* an admin route: GET /api/admin/stats (op = "stats"), which only reads, or
\* POST /api/admin/send (op = "send"), which calls botAPI.sendNotification ->
\* sendMessage: queued when the bot is not ready, otherwise handed to the
\* transport and awaited
AdminRoute(sid, op) ==
    /\ nAdmin < MaxAdminReqs
    /\ nAdmin' = nAdmin + 1
    /\ ares' = [sid |-> sid, op |-> op, status |-> AuthStatus(sid)]
    /\ IF AuthStatus(sid) # 200 \/ op = "stats"
       THEN UNCHANGED <<queueVars, histVars, pendingSends>>
       ELSE IF ~isBotReady
       THEN /\ nextId <= MaxEnq
            /\ LET r == AddCall
               IN /\ queue' = r.queue
                  /\ disk' = r.queue
                  /\ processing' = r.processing
                  /\ drains' = r.drains
                  /\ lastAttempt' = r.lastAttempt
            /\ nextId' = nextId + 1
            /\ ev' = NoEv
            /\ UNCHANGED <<timers, restarts, delivered, dropped, addedReady, pendingSends>>
       ELSE /\ pendingSends < MaxDirect
            /\ pendingSends' = pendingSends + 1
            /\ UNCHANGED <<queueVars, histVars>>
    /\ UNCHANGED <<supVars, spamVars, otps, otpPending, activeSessions, users,
                   nVerifies, nIssues, usedKeys, vres, kvVars, idxVars, obsVars>>

\* sendMessage resumes after await ndii.sendMessage(...): a failed direct
\* send is queued by the catch
SendResume(ok) ==
    /\ pendingSends > 0
    /\ pendingSends' = pendingSends - 1
    /\ IF ok
       THEN UNCHANGED <<queueVars, histVars>>
       ELSE /\ nextId <= MaxEnq
            /\ LET r == AddCall
               IN /\ queue' = r.queue
                  /\ disk' = r.queue
                  /\ processing' = r.processing
                  /\ drains' = r.drains
                  /\ lastAttempt' = r.lastAttempt
            /\ nextId' = nextId + 1
            /\ addedReady' = (addedReady \/ isBotReady)
            /\ ev' = NoEv
            /\ UNCHANGED <<timers, restarts, delivered, dropped>>
    /\ UNCHANGED <<supVars, spamVars, otps, otpPending, activeSessions, users,
                   nVerifies, nIssues, usedKeys, vres, nAdmin, ares, kvVars, idxVars, obsVars>>

\* the OTP routes are served both before and after the connection opens
InitOtpSpec ==
    /\ InitQueue /\ InitHist /\ InitSpam /\ InitOtp /\ InitKv /\ InitIdx /\ InitObs
    /\ isBotReady \in BOOLEAN
    /\ conn = IF isBotReady THEN "open" ELSE "connecting"
    /\ reconnectAttempts = 0
    /\ reconnectTimer = <<>>
    /\ openWait = 0
    /\ sockets = 1
    /\ lastDelay = 0
    /\ taskSets = IF isBotReady THEN 1 ELSE 0

SpecOtp == InitOtpSpec /\ [][NextOtp]_vars

\* the login routes, for one user who presents the code issued, together
\* with the admin routes
NextAdmin ==
    \/ Issue(<<"1">>, "111111")
    \/ \E i \in 1..Len(otpPending), ok \in BOOLEAN : IssueResume(i, ok)
    \/ \E admin \in BOOLEAN : Verify(<<"1">>, "111111", admin)
    \/ \E sid \in 0..(Len(activeSessions) + 1), op \in {"stats", "send"} : AdminRoute(sid, op)
    \/ \E ok \in BOOLEAN : SendResume(ok)

SpecAdmin == InitOtpSpec /\ [][NextAdmin]_vars

\* ------------------------------------------------- sessions over time
\* POST /api/auth/validate: activeSessions.get(sessionId) decides, 200 with
\* the session or 401
Validate(sid) ==
    /\ nAdmin < MaxAdminReqs
    /\ nAdmin' = nAdmin + 1
    /\ ares' = [sid |-> sid, op |-> "validate",
                status |-> IF SessionOf(sid) # NoSession THEN 200 ELSE 401]
    /\ UNCHANGED <<pendingSends, queueVars, supVars, histVars, spamVars, otps, otpPending,
                   activeSessions, users, nVerifies, nIssues, usedKeys, vres, kvVars,
                   idxVars, obsVars>>

\* the login, validate and admin routes with the clock: every login happens
\* before the clock first advances, so every session has createdAt = 0 (the
\* field is stored at part_000:92 and :120 and never read)
NextSession ==
    \/ ticks = 0 /\ Issue(<<"1">>, "111111")
    \/ \E i \in 1..Len(otpPending), ok \in BOOLEAN : IssueResume(i, ok)
    \/ \E admin \in BOOLEAN : ticks = 0 /\ Verify(<<"1">>, "111111", admin)
    \/ \E sid \in 0..(Len(activeSessions) + 1) : AdminRoute(sid, "stats")
    \/ \E sid \in 0..(Len(activeSessions) + 1) : Validate(sid)
    \/ \E d \in {TimeStep, SESSION_TTL} : Tick(d, MaxTicksOtp)

SpecSession == InitOtpSpec /\ [][NextSession]_vars

\* ------------------------------------- serverless login handlers (api/auth)
\* The handlers of api/auth/otp.js and api/auth/verify.js for one target and
\* requests without adminCode.  Every await kv.* is a step of its own: the
\* calls of concurrent invocations reach the store in any order.
nonKvVars == <<queueVars, supVars, histVars, spamVars, otps, otpPending, activeSessions,
               users, nVerifies, nIssues, usedKeys, vres, apiVars, idxVars, obsVars>>

\* kv.get(`otp:${target}`): a key whose time to live has run out is gone
KvGet == IF kv # NoKv /\ now < kv.ex THEN kv ELSE NoKv

\* otp.js is invoked: code and expires are computed before kv.set is awaited
KvIssue(code) ==
    /\ Len(reqs) < MaxKvReqs
    /\ reqs' = Append(reqs,
                  [kind |-> "issue", pc |-> "set", code |-> code,
                   otp |-> [code |-> code, expires |-> now + OTP_TTL, attempts |-> 0,
                            ex |-> -1, by |-> Len(reqs) + 1],
                   result |-> "none"])
    /\ UNCHANGED <<kv, kvSessions, kvUser, lastIssued, nonKvVars>>

\* await kv.set(`otp:${target}`, {code, expires, attempts: 0}, { ex: 300 })
KvIssueSet(r) ==
    /\ r \in 1..Len(reqs)
    /\ reqs[r].kind = "issue" /\ reqs[r].pc = "set"
    /\ kv' = [reqs[r].otp EXCEPT !.ex = now + KV_EX]
    /\ lastIssued' = r
    /\ reqs' = [reqs EXCEPT ![r].pc = "fetch"]
    /\ UNCHANGED <<kvSessions, kvUser, nonKvVars>>

\* the fetch to the bot service settles (either way) and otp.js answers
\* success
KvIssueDone(r) ==
    /\ r \in 1..Len(reqs)
    /\ reqs[r].kind = "issue" /\ reqs[r].pc = "fetch"
    /\ reqs' = [reqs EXCEPT ![r].pc = "done", ![r].result = "sent"]
    /\ UNCHANGED <<kv, kvSessions, kvUser, lastIssued, nonKvVars>>

\* verify.js is invoked with a code
KvVerify(code) ==
    /\ Len(reqs) < MaxKvReqs
    /\ reqs' = Append(reqs, [kind |-> "verify", pc |-> "get", code |-> code,
                             otp |-> NoKv, result |-> "none"])
    /\ UNCHANGED <<kv, kvSessions, kvUser, lastIssued, nonKvVars>>

\* otpData = await kv.get(...) and the synchronous code up to the next await:
\* not found answers 400; an expired record goes on to kv.del; a mismatch
\* increments attempts on the local copy and goes on to kv.set; a match goes
\* on to kv.del
KvVerifyGet(r) ==
    /\ r \in 1..Len(reqs)
    /\ reqs[r].kind = "verify" /\ reqs[r].pc = "get"
    /\ LET o == KvGet
       IN reqs' =
            IF o = NoKv
            THEN [reqs EXCEPT ![r].pc = "done", ![r].result = "notfound"]
            ELSE IF o.expires < now
            THEN [reqs EXCEPT ![r].pc = "delExpired", ![r].otp = o]
            ELSE IF o.code # reqs[r].code
            THEN [reqs EXCEPT ![r].pc = "writeBack",
                              ![r].otp = [o EXCEPT !.attempts = @ + 1]]
            ELSE [reqs EXCEPT ![r].pc = "delOk", ![r].otp = o]
    /\ UNCHANGED <<kv, kvSessions, kvUser, lastIssued, nonKvVars>>

\* await kv.del(...); return 400 'OTP expired'
KvVerifyDelExpired(r) ==
    /\ r \in 1..Len(reqs)
    /\ reqs[r].pc = "delExpired"
    /\ kv' = NoKv
    /\ reqs' = [reqs EXCEPT ![r].pc = "done", ![r].result = "expired"]
    /\ UNCHANGED <<kvSessions, kvUser, lastIssued, nonKvVars>>

\* await kv.set(`otp:${target}`, JSON.stringify(otp), { ex: 300 }); return
\* 400 'Invalid code': the local copy is written whole
KvVerifyWriteBack(r) ==
    /\ r \in 1..Len(reqs)
    /\ reqs[r].pc = "writeBack"
    /\ kv' = [reqs[r].otp EXCEPT !.ex = now + KV_EX]
    /\ reqs' = [reqs EXCEPT ![r].pc = "done", ![r].result = "invalid"]
    /\ UNCHANGED <<kvSessions, kvUser, lastIssued, nonKvVars>>

\* success: await kv.del(`otp:${target}`)
KvVerifyDelOk(r) ==
    /\ r \in 1..Len(reqs)
    /\ reqs[r].pc = "delOk"
    /\ kv' = NoKv
    /\ reqs' = [reqs EXCEPT ![r].pc = "session"]
    /\ UNCHANGED <<kvSessions, kvUser, lastIssued, nonKvVars>>

\* await kv.set(`session:${sessionId}`, userData, { ex: 86400 })
KvVerifySession(r) ==
    /\ r \in 1..Len(reqs)
    /\ reqs[r].pc = "session"
    /\ kvSessions' = kvSessions \cup {r}
    /\ reqs' = [reqs EXCEPT ![r].pc = "user"]
    /\ UNCHANGED <<kv, kvUser, lastIssued, nonKvVars>>

\* await kv.set(`user:${target}`, userData); return success with sessionId
KvVerifyUser(r) ==
    /\ r \in 1..Len(reqs)
    /\ reqs[r].pc = "user"
    /\ kvUser' = TRUE
    /\ reqs' = [reqs EXCEPT ![r].pc = "done", ![r].result = "verified"]
    /\ UNCHANGED <<kv, kvSessions, lastIssued, nonKvVars>>

NextKv ==
    \/ \E c \in Codes : KvIssue(c)
    \/ \E r \in 1..Len(reqs) : KvIssueSet(r)
    \/ \E r \in 1..Len(reqs) : KvIssueDone(r)
    \/ \E c \in Codes : KvVerify(c)
    \/ \E r \in 1..Len(reqs) : KvVerifyGet(r)
    \/ \E r \in 1..Len(reqs) : KvVerifyDelExpired(r)
    \/ \E r \in 1..Len(reqs) : KvVerifyWriteBack(r)
    \/ \E r \in 1..Len(reqs) : KvVerifyDelOk(r)
    \/ \E r \in 1..Len(reqs) : KvVerifySession(r)
    \/ \E r \in 1..Len(reqs) : KvVerifyUser(r)
    \/ \E d \in {2 * TimeStep, OTP_TTL - TimeStep} : Tick(d, MaxTicksKv)

SpecKv == Init /\ [][NextKv]_vars

\* ------------------------------------------------- sendOTP of src/index.js
\* src/index.js is the bot module src/server.js requires.  It has no delivery
\* queue: its sendMessage answers false at once when the bot is not ready and
\* after a failed send, and sendOTP stores the record only after a send that
\* succeeded.
\* sendOTP(phoneNumber, code) up to its return (bot not ready) or up to the
\* await of ndii.sendMessage inside sendMessage (bot ready)
IdxSendOTP(phone, code) ==
    /\ nIssues < MaxIssues
    /\ nIssues' = nIssues + 1
    /\ IF ~isBotReady
       THEN /\ ires' = [target |-> phone, code |-> code, submitted |-> 0,
                        stored |-> otps[Normalise(phone)].code = code,
                        sent |-> FALSE, queued |-> FALSE]
            /\ UNCHANGED otpPending
       ELSE /\ Len(otpPending) < MaxPending
            /\ otpPending' = Append(otpPending, [phone |-> phone, code |-> code])
            /\ UNCHANGED ires
    /\ UNCHANGED <<queueVars, supVars, histVars, spamVars, otps, activeSessions, users,
                   nVerifies, usedKeys, vres, apiVars, kvVars, obsVars>>

\* sendMessage resumes after await ndii.sendMessage(jid, { text }) and
\* answers true or, from its catch, false; sendOTP writes the record when the
\* answer is true, and returns
IdxSendResume(i, ok) ==
    /\ i \in 1..Len(otpPending)
    /\ otpPending' = RemoveAt(otpPending, i)
    /\ LET phone == otpPending[i].phone
           code  == otpPending[i].code
       IN /\ otps' = IF ok THEN StoreOtp(otps, phone, code) ELSE otps
          /\ usedKeys' = IF ok THEN usedKeys \ {Normalise(phone)} ELSE usedKeys
          /\ ires' = [target |-> phone, code |-> code, submitted |-> 1,
                      stored |-> otps'[Normalise(phone)].code = code,
                      sent |-> ok, queued |-> FALSE]
    /\ UNCHANGED <<queueVars, supVars, histVars, spamVars, activeSessions, users,
                   nVerifies, nIssues, vres, apiVars, kvVars, obsVars>>

\* connection.update with connection === 'open' in src/index.js
IdxOpen ==
    /\ conn = "connecting"
    /\ conn' = "open"
    /\ isBotReady' = TRUE
    /\ taskSets' = StartScheduledTasks(taskSets, MaxTaskSets)
    /\ UNCHANGED <<reconnectAttempts, reconnectTimer, openWait, sockets, lastDelay,
                   queueVars, histVars, spamVars, otpVars>>

\* connection.update with connection === 'close' in src/index.js: unless
\* the cause is loggedOut the handler awaits delay(5000) and calls startBot();
\* isBotReady is not assigned
IdxClose(loggedOut) ==
    /\ conn \in {"connecting", "open"}
    /\ conn' = "close"
    /\ sockets' = sockets - 1
    /\ reconnectTimer' = IF ShouldReconnect(loggedOut)
                         THEN Append(reconnectTimer, RECONNECT_INTERVAL)
                         ELSE reconnectTimer
    /\ UNCHANGED <<isBotReady, reconnectAttempts, openWait, lastDelay, taskSets,
                   queueVars, histVars, spamVars, otpVars>>

\* the awaited delay(5000) elapses and startBot() builds a new socket
IdxStartBot(i) ==
    /\ i \in 1..Len(reconnectTimer)
    /\ reconnectTimer' = RemoveAt(reconnectTimer, i)
    /\ conn' = "connecting"
    /\ sockets' = sockets + 1
    /\ UNCHANGED <<isBotReady, reconnectAttempts, openWait, lastDelay, taskSets,
                   queueVars, histVars, spamVars, otpVars>>

NextIdx ==
    \/ \E t \in Targets, c \in Codes : IdxSendOTP(t, c)
    \/ \E i \in 1..Len(otpPending), ok \in BOOLEAN : IdxSendResume(i, ok)
    \/ IdxOpen
    \/ \E lo \in BOOLEAN : IdxClose(lo)
    \/ \E i \in 1..Len(reconnectTimer) : IdxStartBot(i)
    \/ \E d \in {TimeStep, OTP_TTL - TimeStep} : Tick(d, MaxTicksOtp)

SpecIdx == InitOtpSpec /\ [][NextIdx]_vars

\* fairness the event loop provides: armed timers fire, the awaited delay
\* elapses, and the transport settles every send it was handed
SpecQueueFair ==
    /\ SpecQueue
    /\ WF_vars(TimerFire)
    /\ WF_vars(\E i \in 1..Len(drains) : SendOk(i) \/ SendFail(i))
    /\ WF_vars(\E i \in 1..Len(drains) : DelayDone(i))
    /\ WF_vars(\E ok \in BOOLEAN : OpenResume(ok, 0))

\* the event loop's own fairness only: timers fire and the awaited delay
\* elapses, but the transport may leave a send it was handed unsettled, since
\* process() awaits ndii.sendMessage without a timer racing it
SpecQueueUnacked ==
    /\ SpecQueue
    /\ WF_vars(TimerFire)
    /\ WF_vars(\E i \in 1..Len(drains) : DelayDone(i))
    /\ WF_vars(\E ok \in BOOLEAN : OpenResume(ok, 0))

\* ----------------------------------------------------------------- claims
\* a step hands an envelope to the transport on behalf of the drain
DrainStarted == Len(drains') > Len(drains)

\* C1: an envelope leaves the queue in a step if and only if that step is the
\* settlement of its own transport send and the send succeeded or was the
\* failure that brought attempts to MAX_ATTEMPTS; add, timer, open, close and
\* restart steps remove nothing.
C1_RemovedIffSentOrExhausted ==
    [][\A id \in Ids :
         (InQueue(queue, id) /\ ~InQueue(queue', id))
         <=> /\ ev'.type = "settle"
             /\ ev'.id = id
             /\ InQueue(queue, id)
             /\ ev'.ok \/ AttemptsOf(queue, id) + 1 >= MAX_ATTEMPTS]_vars

C1_Witness ==
    /\ ev.type = "settle" /\ ~ev.ok /\ ~InQueue(queue, ev.id)
    /\ delivered # {}
    /\ restarts > 0

\* C2: envelopes are appended at the tail, only the head is handed to the
\* transport, no envelope is attempted while an earlier one is still queued,
\* attempts never go back to an earlier envelope, and a failed head below
\* MAX_ATTEMPTS stays at the head.
C2_AttemptedInEnqueueOrder ==
    [][/\ Len(queue') > Len(queue) =>
              /\ Len(queue') = Len(queue) + 1
              /\ SubSeq(queue', 1, Len(queue)) = queue
              /\ \A i \in 1..Len(queue) : queue[i].id < queue'[Len(queue')].id
       /\ DrainStarted =>
              /\ Len(queue') > 0
              /\ lastAttempt' = queue'[1].id
              /\ lastAttempt' >= lastAttempt
              /\ \A i \in 1..Len(queue') : queue'[i].id >= lastAttempt'
       /\ (ev'.type = "settle" /\ ~ev'.ok
             /\ AttemptsOf(queue, ev'.id) + 1 < MAX_ATTEMPTS) =>
              /\ Len(queue') = Len(queue)
              /\ queue'[1].id = ev'.id
              /\ queue'[1].attempts = AttemptsOf(queue, ev'.id) + 1]_vars

C2_Witness ==
    /\ Len(queue) >= 2
    /\ queue[1].attempts = 2
    /\ Len(drains) = 1 /\ drains[1].phase = "send" /\ drains[1].id = queue[1].id
    /\ restarts > 0

\* C8: whenever the drain hands an envelope to the transport, isBotReady is
\* true and the last connection event was 'open'; no send starts between a
\* 'close' and the next 'open'.
C8_DrainOnlyWhileOpen ==
    [][DrainStarted => isBotReady' /\ conn' = "open"]_vars

C8_Witness ==
    /\ Len(drains) = 1 /\ drains[1].phase = "send"
    /\ ~addedReady
    /\ conn = "open"
    /\ reconnectAttempts = 0 /\ delivered # {}

\* C9: at most one process() invocation is past its guard (sending or in its
\* retry delay) at any time, whatever add, timer and 'open' triggers interleave.
C9_SingleDrain ==
    /\ Len(drains) <= 1
    /\ Len(drains) = 1 <=> processing

C9_Witness ==
    /\ Len(drains) = 1
    /\ timers = MaxTimers
    /\ openWait > 0
    /\ Len(queue) >= 2

\* C10: an envelope enqueued while not ready is delivered once the connection
\* is open, with no further trigger: as long as isBotReady stays true every
\* queued envelope is eventually delivered (or dropped after MAX_ATTEMPTS
\* failures), and whenever the queue is non-empty, isBotReady is true and no
\* drain is running, a process() call is pending.
DrainScheduled == timers > 0 \/ openWait > 0

C10_DeliveredAfterOpen ==
    /\ [](Len(queue) > 0 /\ isBotReady /\ ~processing => DrainScheduled)
    /\ \A id \in 1..MaxEnq :
         InQueue(queue, id) ~> (id \in delivered \/ id \in dropped \/ ~isBotReady)

C10_Witness ==
    /\ delivered # {} /\ ~addedReady
    /\ isBotReady
    /\ queue = <<>>
    /\ dropped = {}

\* an inbound message of sender s is handled in this step
HandleStep(s) == nChecks' = nChecks + 1 /\ last'.sender = s

\* a ban of s was created and its block duration has not yet elapsed
BanActive(s) == banAt[s] >= 0 /\ now < banAt[s] + BLOCK_DURATION

\* C5: while a ban of a sender is active, every inbound message of that
\* sender is refused by check and is not processed by the handler.
C5_BannedNotAdmitted ==
    [][\A s \in Senders :
         (HandleStep(s) /\ BanActive(s)) =>
             /\ ~last'.allowed
             /\ ~last'.processed
             /\ messages' = messages]_vars

C5_Witness ==
    /\ last.reason = "banned" /\ ~last.processed
    /\ BanActive(last.sender)
    /\ now = banAt[last.sender] + BLOCK_DURATION - TimeStep
    /\ last.at = now

\* C6: an event of a non-banned sender is allowed while it is at most the
\* 10th inside the window; the 11th creates a ban and is answered
\* spam_detected; every event while that ban is active is answered banned.
C6_EleventhEventBans ==
    [][\A s \in Senders :
         HandleStep(s) =>
             /\ (s \notin banned /\ Len(evHist[s]) < LIMIT_MESSAGES) =>
                    /\ last'.allowed
                    /\ s \notin banned'
             /\ (s \notin banned /\ Len(evHist[s]) = LIMIT_MESSAGES) =>
                    /\ ~last'.allowed
                    /\ last'.reason = "spam_detected"
                    /\ s \in banned'
                    /\ banAt'[s] = now
             /\ (s \notin banned) => Len(evHist[s]) <= LIMIT_MESSAGES
             /\ BanActive(s) =>
                    /\ ~last'.allowed
                    /\ last'.reason = "banned"]_vars

C6_Witness ==
    /\ last.reason = "banned"
    /\ last.at = banAt[last.sender]
    /\ ticks > 0
    /\ \E u \in Senders : u # last.sender /\ Len(messages[u]) > 0 /\ u \notin banned

\* C7: a ban created at T is in force at every instant before
\* T + BLOCK_DURATION, is cleared only at or after T + BLOCK_DURATION, and the
\* first event after the clearing is judged by the window alone.
C7_BanLastsBlockDuration ==
    [][\A s \in Senders :
         /\ (banAt'[s] >= 0 /\ now' < banAt'[s] + BLOCK_DURATION) => s \in banned'
         /\ (s \in banned /\ s \notin banned') => now >= banAt[s] + BLOCK_DURATION
         /\ (HandleStep(s) /\ s \notin banned /\ banAt[s] >= 0) =>
                (last'.allowed <=> Len(evHist[s]) < LIMIT_MESSAGES)]_vars

C7_Witness ==
    \E s \in Senders :
        /\ banAt[s] >= 0
        /\ s \notin banned
        /\ last.sender = s /\ last.allowed /\ last.processed
        /\ last.at >= banAt[s] + BLOCK_DURATION

\* a verify request without the admin secret is handled in this step
VerifyStep == nVerifies' = nVerifies + 1 /\ ~vres'.admin

\* C3: once a verify for a target has returned Verified, every further verify
\* for that target, with any code and without a new issue, returns NotFound.
C3_VerifySingleUse ==
    [][(VerifyStep /\ Normalise(vres'.target) \in usedKeys) =>
           vres'.result = "NotFound"]_vars

\* C4: verify returns Verified, and mints a user session, only when a record
\* for the target exists, its expiry has not passed and its code equals the
\* presented code; with no record it returns NotFound and changes neither the
\* OTP store nor the sessions.
C4_VerifiedOnlyOnLiveMatch ==
    [][VerifyStep =>
         LET rec == otps[Normalise(vres'.target)]
         IN /\ vres'.result = "Verified" =>
                   /\ rec # NoRec
                   /\ now <= rec.expires
                   /\ rec.code = vres'.code
                   /\ activeSessions' = Append(activeSessions,
                          [role |-> "user", name |-> vres'.target])
            /\ vres'.result # "Verified" => activeSessions' = activeSessions
            /\ rec = NoRec =>
                   /\ vres'.result = "NotFound"
                   /\ otps' = otps
                   /\ activeSessions' = activeSessions
                   /\ users' = users]_vars

C4_Witness ==
    /\ vres.result = "Verified"
    /\ Len(activeSessions) = 1 /\ activeSessions[1].role = "user"
    /\ otps[Normalise(vres.target)] = NoRec
    /\ now = OTP_TTL

\* handleReconnect ran in this step
ReconnectStep == reconnectAttempts' = reconnectAttempts + 1

\* the delay of the timer handleReconnect armed in this step
ScheduledDelay == reconnectTimer'[Len(reconnectTimer')]

\* C11: the delay scheduled after the n-th consecutive failure is
\* min(5000 * 2^(n-1), 60000) ms, and within a run of consecutive failures of
\* any length, past the attempt ceiling included, every scheduled delay is at
\* least the one before it and at most 60000 ms.
C11_BackoffMonotoneCapped ==
    [][ReconnectStep =>
         /\ ScheduledDelay = Min(5000 * (2 ^ (reconnectAttempts' - 1)), 60000)
         /\ ScheduledDelay >= lastDelay
         /\ ScheduledDelay <= 60000]_vars

AdminVerifyStep == nVerifies' = nVerifies + 1 /\ vres'.admin

\* C13: a verify request that carries the admin secret appends one session of
\* role admin and leaves the OTP store and the users untouched, whatever
\* records (none, live, expired, with failed attempts) the store holds.
C13_AdminSecretBypassesOtp ==
    [][AdminVerifyStep =>
         /\ activeSessions' = Append(activeSessions, [role |-> "admin", name |-> <<>>])
         /\ otps' = otps
         /\ users' = users
         /\ usedKeys' = usedKeys]_vars

C13_Witness ==
    /\ vres.admin
    /\ Len(activeSessions) = 1 /\ activeSessions[1].role = "admin"
    /\ \E k \in OtpKeys : otps[k] # NoRec /\ otps[k].attempts > 0 /\ otps[k].expires < now

\* a request to an admin route is handled in this step
AdminStep == nAdmin' = nAdmin + 1

\* the effect of POST /api/admin/send: the message went to the queue or to
\* the transport
SendTookEffect ==
    \/ Len(queue') = Len(queue) + 1
    \/ pendingSends' = pendingSends + 1

\* C14: a request to an admin route is answered 200, and its operation takes
\* effect, only when it carries the id of a session that is in activeSessions
\* with role admin; with no id, an unknown id or a user session it is
\* refused (401 or 403) and neither the queue, the transport, the OTP store,
\* the users nor the sessions change.
C14_AdminRoutesNeedAdminSession ==
    [][AdminStep =>
         LET sid == ares'.sid
             isAdminSession == /\ sid \in 1..Len(activeSessions)
                               /\ activeSessions[sid].role = "admin"
         IN /\ isAdminSession =>
                   /\ ares'.status = 200
                   /\ ares'.op = "send" => SendTookEffect
            /\ ~isAdminSession =>
                   /\ ares'.status \in {401, 403}
                   /\ UNCHANGED <<queueVars, supVars, histVars, pendingSends>>
                   /\ UNCHANGED <<otps, otpPending, activeSessions, users>>]_vars

C14_Witness ==
    /\ ares.status = 403 /\ ares.op = "send"
    /\ \E i \in 1..Len(activeSessions) : activeSessions[i].role = "admin"
    /\ \E i \in 1..Len(activeSessions) : activeSessions[i].role = "user"
    /\ pendingSends > 0 \/ Len(queue) > 0

\* C15: a verify with a wrong code on a record that exists and has not
\* expired returns Mismatch and changes the store only by adding 1 to that
\* record's attempts (code and expiry stay); a later verify of that record
\* with its code, before expiry, returns Verified and removes the record.
C15_MismatchCountsThenVerifies ==
    [][VerifyStep =>
         LET key == Normalise(vres'.target)
             rec == otps[key]
             live == rec # NoRec /\ now <= rec.expires
         IN /\ (live /\ rec.code # vres'.code) =>
                   /\ vres'.result = "Mismatch"
                   /\ otps' = [otps EXCEPT ![key].attempts = rec.attempts + 1]
                   /\ activeSessions' = activeSessions
            /\ (live /\ rec.attempts >= 1 /\ rec.code = vres'.code) =>
                   /\ vres'.result = "Verified"
                   /\ otps'[key] = NoRec]_vars

\* C16: a verify on a record whose expiry has passed returns Expired and
\* removes the record, so that the next verify for the target, with no issue
\* in between, returns NotFound.
C16_ExpiredRecordDeleted ==
    [][VerifyStep =>
         LET key == Normalise(vres'.target)
             rec == otps[key]
         IN (rec # NoRec /\ rec.expires < now) =>
                /\ vres'.result = "Expired"
                /\ otps'[key] = NoRec]_vars

\* cmdSendOTP reaches its DB.update in this step: at once when the bot is
\* not ready, otherwise when the awaited direct send settles
IssueCompletes ==
    \/ nIssues' = nIssues + 1 /\ ~isBotReady
    \/ Len(otpPending') < Len(otpPending)

\* C17: when an issue for a target completes, the store changes in exactly
\* one record, the one under the target's normalised key, which then holds
\* the code of this issuance with attempts 0 and expiry now + 5 min; no
\* record is ever kept under another spelling of the target, and a verify
\* succeeds only with the code of the record currently stored, so the code
\* of an overwritten issuance no longer verifies.
C17_IssueOverwritesRecord ==
    [][/\ IssueCompletes =>
              /\ \E t \in Targets, c \in Codes :
                    /\ otps' = [otps EXCEPT ![Normalise(t)] =
                                   [code |-> c, expires |-> now + OTP_TTL, attempts |-> 0]]
                    /\ Len(otpPending') < Len(otpPending) =>
                          \E i \in 1..Len(otpPending) :
                              /\ otpPending' = RemoveAt(otpPending, i)
                              /\ Normalise(otpPending[i].phone) = Normalise(t)
                              /\ otpPending[i].code = c
              /\ \A t \in Targets : Normalise(t) # t => otps'[t] = NoRec
       /\ (VerifyStep /\ vres'.result = "Verified") =>
              vres'.code = otps[Normalise(vres'.target)].code]_vars

C17_Witness ==
    LET rec == otps[<<"1">>]
    IN /\ nIssues = 2 /\ otpPending = <<>>
       /\ rec # NoRec /\ rec.attempts = 0
       /\ now > 0 /\ rec.expires = now + OTP_TTL
       /\ vres.result = "Mismatch" /\ vres.code # rec.code

\* sendMessage hands a message to the transport itself in this step (the
\* isBotReady branch): the start-up notification, an OTP text or a
\* notification
DirectHandoff ==
    \/ openWait' > openWait
    \/ Len(otpPending') > Len(otpPending)
    \/ pendingSends' > pendingSends

\* C18: no message is handed to the transport while an envelope submitted
\* before it is still in the queue: a message that sendMessage sends itself
\* finds the queue empty.
C18_SubmissionOrderAcrossApi ==
    [][DirectHandoff => queue = <<>>]_vars

\* C19: queue.json holds the in-memory queue after every step (append, head
\* removal, attempts increment), so a restart in any state reloads the same
\* envelopes in the same order with the same attempts, with no drain running;
\* and a reloaded envelope is delivered (or dropped after MAX_ATTEMPTS
\* failures) once the connection is open, as long as it stays open.
C19_RestartReloadsQueue ==
    /\ [](disk = queue)
    /\ [][restarts' = restarts + 1 =>
             /\ queue' = queue
             /\ disk' = disk
             /\ ~processing' /\ drains' = <<>> /\ ~isBotReady']_vars
    /\ \A id \in 1..MaxEnq :
         (restarts > 0 /\ InQueue(queue, id) /\ isBotReady)
             ~> (id \in delivered \/ id \in dropped \/ ~isBotReady)

C19_Witness ==
    /\ restarts > 0
    /\ ~isBotReady /\ conn = "connecting"
    /\ Len(queue) = 2 /\ queue[1].attempts = 2 /\ queue[2].attempts = 0
    /\ disk = queue
    /\ drains = <<>> /\ timers = 0

\* C20: every envelope in the queue has 0 <= attempts <= MAX_ATTEMPTS in
\* every state; an envelope enters the queue with attempts 0, and the attempts
\* of a queued envelope change only by +1, in the step that settles a failed
\* send of that envelope while it is the head.
C20_AttemptsBounded ==
    /\ [](\A i \in 1..Len(queue) :
             queue[i].attempts >= 0 /\ queue[i].attempts <= MAX_ATTEMPTS)
    /\ [][\A id \in Ids :
             /\ (~InQueue(queue, id) /\ InQueue(queue', id)) =>
                    AttemptsOf(queue', id) = 0
             /\ (InQueue(queue, id) /\ InQueue(queue', id)
                   /\ AttemptsOf(queue', id) # AttemptsOf(queue, id)) =>
                    /\ AttemptsOf(queue', id) = AttemptsOf(queue, id) + 1
                    /\ ev'.type = "settle" /\ ~ev'.ok /\ ev'.id = id
                    /\ queue[1].id = id]_vars

C20_Witness ==
    /\ ev.type = "settle" /\ ~ev.ok
    /\ Len(queue) = 2
    /\ queue[1].id = ev.id /\ queue[1].attempts = MAX_ATTEMPTS - 1
    /\ queue[2].attempts = 0

\* C21: the drain hands an envelope to the transport only while it has
\* fewer than MAX_ATTEMPTS failed sends, so a head whose sends all fail is
\* sent at most MAX_ATTEMPTS times; its last failure removes it as dropped
\* and makes the next envelope the head; and while isBotReady stays true
\* every queued envelope is eventually attempted, however often the
\* envelopes before it fail.
C21_FailingHeadDroppedAfterMax ==
    /\ [][DrainStarted => AttemptsOf(queue', lastAttempt') < MAX_ATTEMPTS]_vars
    /\ [][\A id \in Ids :
             (ev'.type = "settle" /\ ~ev'.ok /\ ev'.id = id /\ InQueue(queue, id)
                /\ AttemptsOf(queue, id) = MAX_ATTEMPTS - 1) =>
                 /\ ~InQueue(queue', id)
                 /\ id \in dropped'
                 /\ queue' = Tail(queue)]_vars
    /\ \A id \in 1..MaxEnq :
         InQueue(queue, id) ~> (lastAttempt >= id \/ ~isBotReady)

C21_Witness ==
    /\ restarts = 0 /\ isBotReady
    /\ dropped = {1} /\ delivered = {}
    /\ Len(queue) = 1 /\ queue[1].id = 2
    /\ Len(drains) = 1 /\ drains[1].id = 2 /\ drains[1].phase = "send"

\* C22: in every step taken while isBotReady is false and stays false, no
\* envelope leaves the queue and no envelope's attempts change (an enqueue
\* may append), also when a send was in flight at the moment of the 'close'.
C22_QueueUntouchedWhileNotReady ==
    [][(~isBotReady /\ ~isBotReady') =>
         \A id \in Ids :
             InQueue(queue, id) =>
                 /\ InQueue(queue', id)
                 /\ AttemptsOf(queue', id) = AttemptsOf(queue, id)]_vars

\* C23: the failure that takes the counter past MAX_RECONNECT_ATTEMPTS
\* schedules the rebuild after a cooldown longer than the capped backoff
\* delay, and the counter is reset, so that the next failure is scheduled
\* with the base delay again.
C23_CeilingCooldownAndReset ==
    [][/\ (ReconnectStep /\ reconnectAttempts = MAX_RECONNECT_ATTEMPTS) =>
              ScheduledDelay > RECONNECT_CAP
       /\ (ReconnectStep /\ reconnectAttempts > MAX_RECONNECT_ATTEMPTS) =>
              ScheduledDelay = RECONNECT_INTERVAL]_vars

\* C24: in every state at most one transport instance is connecting or
\* open and at most one startBot timer is pending, and never both, whatever
\* 'open' events, recoverable 'close' events and startBot failures occur.
C24_SingleSession ==
    /\ sockets \in {0, 1}
    /\ Len(reconnectTimer) <= 1
    /\ sockets + Len(reconnectTimer) <= 1
    /\ sockets = 1 <=> conn \in {"connecting", "open"}

C24_Witness ==
    /\ sockets = 1 /\ conn = "connecting"
    /\ reconnectAttempts = MaxReconnectQ
    /\ restarts > 0
    /\ delivered # {}

\* C25: a check on a sender whose ban has not expired is answered banned
\* with remaining equal to the time left of that ban, that is ban time +
\* BLOCK_DURATION - now.
C25_RemainingIsTimeLeft ==
    [][\A s \in Senders :
         (HandleStep(s) /\ s \in banned /\ BanActive(s)) =>
             /\ last'.reason = "banned"
             /\ last'.remaining = banAt[s] + BLOCK_DURATION - now]_vars

\* C26: also when writes of queue.json fail, within one run of the process
\* an envelope leaves the in-memory queue only in the step that settles its own send, as a success
\* or as the failure that brings its attempts to MAX_ATTEMPTS, and the
\* attempts of a queued envelope change only by a failed send of that
\* envelope.
C26_WriteFailureKeepsQueue ==
    [][restarts' = restarts => \A id \in Ids :
         /\ (InQueue(queue, id) /\ ~InQueue(queue', id)) =>
                /\ ev'.type = "settle"
                /\ ev'.id = id
                /\ ev'.ok \/ AttemptsOf(queue, id) + 1 >= MAX_ATTEMPTS
         /\ (InQueue(queue, id) /\ InQueue(queue', id)
               /\ AttemptsOf(queue', id) # AttemptsOf(queue, id)) =>
                /\ ev'.type = "settle" /\ ~ev'.ok /\ ev'.id = id]_vars

\* the drain is suspended in await this.send(msg) for envelope id
SendInFlight(id) ==
    \E i \in 1..Len(drains) : drains[i].id = id /\ drains[i].phase = "send"

\* C27: a send handed to the transport does not block the drain forever: even
\* when the transport never settles it, the drain eventually leaves that send,
\* and it leaves it with the attempt accounted as failed (attempts
\* incremented, or the envelope dropped at MAX_ATTEMPTS) unless the send
\* resolved or the process was restarted.
C27_UnackedSendTimesOut ==
    /\ \A id \in 1..MaxEnq : SendInFlight(id) ~> ~SendInFlight(id)
    /\ [][\A id \in Ids :
            (SendInFlight(id) /\ ~SendInFlight(id)' /\ restarts' = restarts
               /\ ~(ev'.type = "settle" /\ ev'.ok)) =>
                 \/ AttemptsOf(queue', id) = AttemptsOf(queue, id) + 1
                 \/ id \in dropped']_vars

\* verify request r of the serverless handler answered success
KvVerified(r) == reqs[r].kind = "verify" /\ reqs[r].result = "verified"

\* C28: of the verify requests that carry the correct code of one issued
\* record, at most one answers Verified and at most one mints a session,
\* however the requests interleave.
C28_OneVerifiedPerRecord ==
    \A b \in 1..MaxKvReqs :
        /\ Cardinality({r \in 1..Len(reqs) : KvVerified(r) /\ reqs[r].otp.by = b}) <= 1
        /\ Cardinality({r \in kvSessions : reqs[r].otp.by = b}) <= 1

\* every handler invocation has answered
KvAllDone == \A r \in 1..Len(reqs) : reqs[r].pc = "done"

\* C29: once an issue and the verifies interleaved with it have completed, a
\* stored record is the one written by the latest issue, with its code and
\* expiry: the attempts write-back of a mismatching verify never reinstates
\* the record of an earlier issuance.
C29_WriteBackKeepsLatestIssue ==
    (KvAllDone /\ kv # NoKv /\ lastIssued > 0) =>
        /\ kv.code = reqs[lastIssued].otp.code
        /\ kv.expires = reqs[lastIssued].otp.expires

\* C30: an issue that has returned stored a record for the target with the
\* code it sent and submitted exactly one text message carrying that code,
\* to the transport or, when the bot is not ready, to the delivery queue.
C30_IssueStoresAndSubmitsOne ==
    ires.target # <<>> => (ires.submitted = 1 /\ ires.stored)

\* C31: a request that presents a session more than SESSION_TTL after the
\* session was created (all sessions are created at time 0 here) is answered
\* 401, by the validate route and by the admin routes alike.
C31_SessionExpires ==
    [][(nAdmin' = nAdmin + 1 /\ ares'.sid \in 1..Len(activeSessions)
          /\ now > SESSION_TTL) => ares'.status = 401]_vars

\* C32: an envelope added without a destination is rejected: it never is
\* in the queue or in the queue file, and process() never calls send() for
\* it.
C32_InvalidEnvelopeRejected ==
    \A id \in noDest :
        /\ ~InQueue(queue, id)
        /\ ~InQueue(disk, id)
        /\ lastAttempt # id

\* C33: add() calls that interleave with a send in flight lose and reorder
\* nothing.  The envelope whose send is in flight is the head of the queue;
\* an add() during the send appends one envelope at the tail and leaves the
\* send alone; when the send resolves the queue loses exactly its head, which
\* is the envelope that was sent, and the envelopes behind it stay in enqueue
\* order.
C33_AddDuringSendKeepsOrder ==
    /\ [](\A id \in Ids : SendInFlight(id) => (Len(queue) > 0 /\ queue[1].id = id))
    /\ [](\A i, j \in 1..Len(queue) : i < j => queue[i].id < queue[j].id)
    /\ [][\A id \in Ids :
            (SendInFlight(id) /\ nextId' = nextId + 1) =>
                /\ queue' = Append(queue, [id |-> nextId, attempts |-> 0])
                /\ SendInFlight(id)']_vars
    /\ [][(ev'.type = "settle" /\ ev'.ok) =>
                /\ queue[1].id = ev'.id
                /\ queue' = Tail(queue)]_vars

C33_Witness ==
    /\ ev.type = "settle" /\ ev.ok /\ ev.id = 1
    /\ queue = <<[id |-> 2, attempts |-> 0]>>
    /\ delivered = {1}
    /\ addedReady /\ restarts = 0 /\ isBotReady
    /\ timers = 1 /\ ~processing

\* C34: the readiness flag is true exactly when the most recent connection
\* event was 'open': every 'close' makes it false and it stays false until
\* the next 'open'.
C34_ReadyIffOpen == isBotReady <=> conn = "open"

\* C35: a message given to sendMessage is accepted by the transport or is
\* appended to the delivery queue; when the bot is not ready or the direct
\* send fails it is not discarded.
C35_SentOrQueued ==
    ires.target # <<>> => (ires.sent \/ ires.queued)

Spread(a, b) ==
    [k \in DOMAIN a \cup DOMAIN b |-> IF k \in DOMAIN b THEN b[k] ELSE a[k]]

\* session.settings, undefined (spread as no property) on a session minted
\* without settings
SettingsOf(session) ==
    IF "settings" \in DOMAIN session THEN session.settings ELSE <<>>

SetSettings_OnSession(session, settings) == Spread(session, settings)

\* session.settings = { ...session.settings, ...settings }
SetSettings(session, settings) ==
    Spread(session, [settings |-> Spread(SettingsOf(session), settings)])

\* the settings objects a request body carries
SettingsBodies == {[darkMode |-> "true", role |-> "admin"]}

\* POST /api/user/settings for a session the map holds (any other id answers
\* 401): merges the body's settings into session.settings and stores the
\* session back; the users file only receives the settings
UserSettings(sid, settings) ==
    /\ sid \in 1..Len(activeSessions)
    /\ activeSessions' = [activeSessions EXCEPT ![sid] = SetSettings(@, settings)]
    /\ UNCHANGED <<otps, otpPending, users, nVerifies, nIssues, usedKeys, vres, apiVars,
                   kvVars, idxVars, obsVars, queueVars, supVars, histVars, spamVars>>

\* socket 'authenticate': session.online = true for a session the map holds
SocketAuthenticate(sid) ==
    /\ sid \in 1..Len(activeSessions)
    /\ activeSessions' = [activeSessions EXCEPT ![sid] = Spread(@, [online |-> TRUE])]
    /\ UNCHANGED <<otps, otpPending, users, nVerifies, nIssues, usedKeys, vres, apiVars,
                   kvVars, idxVars, obsVars, queueVars, supVars, histVars, spamVars>>

\* socket 'disconnect' of a socket that authenticated with sid:
\* session.online = false; session.lastSeen = Date.now()
SocketDisconnect(sid) ==
    /\ sid \in 1..Len(activeSessions)
    /\ "online" \in DOMAIN activeSessions[sid]
    /\ activeSessions' = [activeSessions EXCEPT
                            ![sid] = Spread(@, [online |-> FALSE, lastSeen |-> now])]
    /\ UNCHANGED <<otps, otpPending, users, nVerifies, nIssues, usedKeys, vres, apiVars,
                   kvVars, idxVars, obsVars, queueVars, supVars, histVars, spamVars>>

\* the login route for one user, with the operations that write a session back
NextRoles ==
    \/ Issue(<<"1">>, "111111")
    \/ \E i \in 1..Len(otpPending), ok \in BOOLEAN : IssueResume(i, ok)
    \/ \E admin \in BOOLEAN :
          Len(activeSessions) < MaxSessions /\ Verify(<<"1">>, "111111", admin)
    \/ \E sid \in 1..Len(activeSessions), st \in SettingsBodies : UserSettings(sid, st)
    \/ \E sid \in 1..Len(activeSessions) : SocketAuthenticate(sid)
    \/ \E sid \in 1..Len(activeSessions) : SocketDisconnect(sid)

SpecRoles == InitOtpSpec /\ [][NextRoles]_vars

\* C37: a session is minted only by a verify request, with role admin exactly
\* when the request carried the admin secret and role user after an OTP
\* verification; no step (settings update, socket authenticate, disconnect,
\* later logins) changes the role of a session the map already holds.
C37_RoleFixedAtMinting ==
    [][/\ Len(activeSessions') >= Len(activeSessions)
       /\ \A i \in 1..Len(activeSessions) :
              activeSessions'[i].role = activeSessions[i].role
       /\ \A i \in (Len(activeSessions) + 1)..Len(activeSessions') :
              /\ nVerifies' = nVerifies + 1
              /\ activeSessions'[i].role = IF vres'.admin THEN "admin" ELSE "user"]_vars

C37_Witness ==
    \E i, j \in 1..Len(activeSessions) :
        /\ activeSessions[i].role = "user"
        /\ SettingsOf(activeSessions[i]) = [darkMode |-> "true", role |-> "admin"]
        /\ "lastSeen" \in DOMAIN activeSessions[i] /\ ~activeSessions[i].online
        /\ activeSessions[j].role = "admin"
        /\ SettingsOf(activeSessions[j]) = [darkMode |-> "true", role |-> "admin"]
        /\ "online" \in DOMAIN activeSessions[j] /\ activeSessions[j].online

\* C38: within one process startScheduledTasks() runs at most once, however
\* often the connection closes and reopens.
C38_TasksRegisteredOnce == taskSets <= 1

\* C39: the processing flag is true only while a process() invocation is
\* running (sending or in its retry delay); every drain cycle, with a
\* failing send or a failing write of queue.json included, ends with the
\* flag false.
C39_ProcessingFlagReleased == processing => Len(drains) > 0

====
